---- MODULE Spec2Model ----
(***************************************************************************)
(* Model of the /render request handler of yt-render-ffmpeg (src/app.py). *)
(* One request is followed from the parsing of its JSON body to the       *)
(* moment the response leaves the handler.  Every external call (HTTP     *)
(* download, ffmpeg child process, Cloudinary upload, file removal) is a  *)
(* nondeterministic choice over the outcomes the call can have.           *)
(***************************************************************************)
EXTENDS Integers, Sequences, FiniteSets, TLC

\* ---------------------------------------------------------------- bounds
\* Longest scenes list of a request.
MaxScenes == 2

\* ------------------------------------------------------------ characters
\* A URL is a sequence of characters; four characters are told apart:
\* the double quote, the single quote, whitespace and any other character.
DQ == "dq"
SQ == "sq"
SP == "sp"
CH == "a"

\* ------------------------------------------------------------ clean_url
RECURSIVE lstrip(_)
lstrip(s) == IF s # <<>> /\ Head(s) = SP THEN lstrip(Tail(s)) ELSE s

RECURSIVE rstrip(_)
rstrip(s) ==
    IF s # <<>> /\ s[Len(s)] = SP THEN rstrip(SubSeq(s, 1, Len(s) - 1)) ELSE s

\* str.strip()
strip(s) == rstrip(lstrip(s))

\* s.startswith(q) and s.endswith(q); true of the one-character string q
Quoted(s, q) == s # <<>> /\ Head(s) = q /\ s[Len(s)] = q

\* the URL used as sent, neither stripped nor unquoted
clean_url_identity(u) == u

clean_url(u) ==
    LET s == strip(u)
    IN  IF Quoted(s, DQ) \/ Quoted(s, SQ)
        THEN SubSeq(s, 2, Len(s) - 1)
        ELSE s

\* ------------------------------------------------------------- requests
\* The "seconds" of a scene as float() sees it: a number, NaN (json.loads
\* reads the literal NaN), or a value float() raises on.
Num(n) == [kind |-> "num", v |-> n]
NaN == [kind |-> "nan", v |-> 0]
NotANumber == [kind |-> "bad", v |-> 0]

SecondsValues == {Num(0), Num(1), NaN, NotANumber}

UrlValues == {<<>>, <<SP>>, <<CH>>, <<DQ, CH, DQ>>}

AudioUrlValues == {<<>>, <<DQ, DQ>>, <<SQ, CH, SQ>>}

\* A scene of the request: a JSON object, or a value that is no object.
SceneObject(u, t) == [object |-> TRUE, image_url |-> u, seconds |-> t]
NonObjectScene == [object |-> FALSE, image_url |-> <<>>, seconds |-> Num(0)]

SceneValues ==
    {SceneObject(u, t) : u \in UrlValues, t \in SecondsValues}
        \cup {NonObjectScene}

SceneLists == UNION {[1..n -> SceneValues] : n \in 0..MaxScenes}

\* the defaults of lines 71-73
DefaultW == 1280
DefaultH == 720
DefaultFps == 24

\* size and fps of a request as int() returns them: left out (the
\* defaults), or a width of 0
VideoValues ==
    {[w |-> DefaultW, h |-> DefaultH, fps |-> DefaultFps],
     [w |-> 0, h |-> DefaultH, fps |-> DefaultFps]}

\* A body get_json or the int() conversions raise on.
InvalidPayload ==
    [payload_ok |-> FALSE, video |-> [w |-> 0, h |-> 0, fps |-> 0],
     audio_url |-> <<>>, scenes |-> <<>>]

Requests ==
    {[payload_ok |-> TRUE, video |-> v, audio_url |-> a, scenes |-> ss] :
        v \in VideoValues, a \in AudioUrlValues, ss \in SceneLists}
        \cup {InvalidPayload}

\* ------------------------------------------------------------ responses
NoStage == "none"
NoUrl == "none"

\* scenes, w, h, fps: the meta of an ok response
Response(code, status, stage, error, url, n) ==
    [code |-> code, status |-> status, stage |-> stage, error |-> error,
     video_url |-> url, scenes |-> n, w |-> 0, h |-> 0, fps |-> 0]

NoResponse == Response(0, "none", NoStage, "none", NoUrl, 0)

ErrorResponse(code, msg) == Response(code, "error", NoStage, msg, NoUrl, 0)

\* the handler of subprocess.CalledProcessError
FfmpegErrorResponse == Response(500, "error", "ffmpeg", "stderr", NoUrl, 0)

\* the handler of Exception
ExceptionResponse == ErrorResponse(500, "exception")


\* ---------------------------------------------------------- scratch files
\* A path.  dir: "tmp" is the system temporary directory, which all
\* requests share, "work" a directory made by mkdtemp.  n is the random part
\* of the name: of the file itself in "tmp", of the directory in "work".
\* kind and idx are the fixed part of the name (suffix, or name in the
\* directory).
File(kind, idx, dir, n) == [kind |-> kind, idx |-> idx, dir |-> dir, n |-> n]

\* mkdtemp(prefix="render_"), line 83
DirNamed(n) == File("workdir", 0, "tmp", n)
\* mkstemp(suffix=".mp3"), lines 48 and 91
AudioFile(n) == File("audio", 0, "tmp", n)
\* mkstemp(suffix="_NN.jpg"), lines 48 and 99
ImgFile(k, n) == File("img", k, "tmp", n)

NoFile == File("none", 0, "none", 0)

\* --------------------------------------------------------------- events
Event(op, idx, ok) == [op |-> op, idx |-> idx, ok |-> ok]

VARIABLES
    request,        \* the JSON body of the request
    cloudinary_url, \* TRUE iff CLOUDINARY_URL is set when the process starts
    pc,             \* position of the handler
    W,              \* the locals W, H and fps of render (0: not yet set)
    H,
    fps,
    audio_url,      \* the local audio_url of render
    i,              \* the loop index of enumerate(scenes, start=1)
    local_audio,    \* path of the downloaded audio, NoFile for None
    local_imgs,     \* paths of the downloaded images
    seg_files,      \* paths of the encoded segments
    list_txt,       \* the lines written to list.txt
    disk,           \* the files and directories that exist
    log,            \* the external calls made so far, in order
    response,       \* the value the handler returns
    cleanups,       \* how many times the finally block has run
    workdir,        \* the random part of the local workdir (0: not yet made)
    created,        \* the paths this request made and has not removed
    others          \* the other requests in flight: their handlers' state

vars ==
    <<request, cloudinary_url, pc, W, H, fps, audio_url, i, local_audio,
      local_imgs, seg_files, list_txt, disk, log, response, cleanups,
      workdir, created, others>>

\* the paths of lines 83-87, 106 and 126
WorkDir == DirNamed(workdir)
SegFile(k) == File("seg", k, "work", workdir)
ListFile == File("list", 0, "work", workdir)
ConcatFile == File("concat", 0, "work", workdir)
OutFile == File("out", 0, "work", workdir)

\* the random names: as many as there are requests in flight, so that a
\* name that no existing file has is always to be had
Names == 1..(1 + Len(others))

\* a name given to every caller, whether or not a file has it
FixedNames(kind, idx) == {1}

\* mkstemp and mkdtemp (lines 48, 83) make a file or directory that did
\* not exist: the names they may return
FreshNames(kind, idx) ==
    {n \in Names : File(kind, idx, "tmp", n) \notin disk}

Init ==
    /\ request \in Requests
    /\ cloudinary_url \in BOOLEAN
    /\ pc = "Validating"
    /\ W = 0
    /\ H = 0
    /\ fps = 0
    /\ audio_url = <<>>
    /\ i = 1
    /\ local_audio = NoFile
    /\ local_imgs = <<>>
    /\ seg_files = <<>>
    /\ list_txt = <<>>
    /\ disk = {}
    /\ log = <<>>
    /\ response = NoResponse
    /\ cleanups = 0
    /\ workdir = 0
    /\ created = {}
    /\ others = <<>>

\* a successor of Successor with the concatenation and the mux exchanged
SuccessorMuxFirst(stage) ==
    CASE stage = "Validating" -> "Setup"
      [] stage = "Setup" -> "FetchAudio"
      [] stage = "FetchAudio" -> "Loop"
      [] stage = "SceneCheck" -> "FetchImage"
      [] stage = "FetchImage" -> "Encode"
      [] stage = "Encode" -> "Loop"
      [] stage = "CheckSegments" -> "WriteList"
      [] stage = "WriteList" -> "Mux"
      [] stage = "Mux" -> "Concat"
      [] stage = "Concat" -> "Publish"
      [] stage = "CheckConfig" -> "Upload"

\* a successor of Successor with the audio downloaded after the loop, when
\* the mux is known to need it
SuccessorAudioLate(stage) ==
    CASE stage = "Validating" -> "Setup"
      [] stage = "Setup" -> "Loop"
      [] stage = "SceneCheck" -> "FetchImage"
      [] stage = "FetchImage" -> "Encode"
      [] stage = "Encode" -> "Loop"
      [] stage = "CheckSegments" -> "FetchAudio"
      [] stage = "FetchAudio" -> "WriteList"
      [] stage = "WriteList" -> "Concat"
      [] stage = "Concat" -> "Mux"
      [] stage = "Mux" -> "Publish"
      [] stage = "CheckConfig" -> "Upload"

\* the statement control reaches when a step of render completes normally
\* (the order of the statements of lines 68-170)
Successor(stage) ==
    CASE stage = "Validating" -> "Setup"
      [] stage = "Setup" -> "FetchAudio"
      [] stage = "FetchAudio" -> "Loop"
      [] stage = "SceneCheck" -> "FetchImage"
      [] stage = "FetchImage" -> "Encode"
      [] stage = "Encode" -> "Loop"
      [] stage = "CheckSegments" -> "WriteList"
      [] stage = "WriteList" -> "Concat"
      [] stage = "Concat" -> "Mux"
      [] stage = "Mux" -> "Publish"
      [] stage = "CheckConfig" -> "Upload"

\* the error is built but the handler does not return
RejectWithoutReturn(r) ==
    /\ response' = r
    /\ pc' = pc

\* the request is answered by a return that the finally block does not guard
Reject(r) ==
    /\ response' = r
    /\ pc' = "done"

\* a return that leaves the handler without passing the finally block
FinishUnguarded(r) ==
    /\ response' = r
    /\ pc' = "done"

\* a return or a handled exception inside the try: the finally block is next
Finish(r) ==
    /\ response' = r
    /\ pc' = "Cleanup"

\* lines 68-81
Validate ==
    /\ pc = "Validating"
    /\ IF ~request.payload_ok
       THEN /\ Reject(ErrorResponse(400, "Payload invalido"))
            /\ UNCHANGED <<W, H, fps, audio_url>>
       ELSE /\ W' = request.video.w
            /\ H' = request.video.h
            /\ fps' = request.video.fps
            /\ audio_url' = clean_url(request.audio_url)
            /\ IF request.scenes = <<>>
               THEN Reject(ErrorResponse(400, "scenes vacio"))
               ELSE IF audio_url' = <<>>
               THEN Reject(ErrorResponse(400, "audio_url vacio"))
               ELSE /\ pc' = Successor("Validating")
                    /\ UNCHANGED response
    /\ UNCHANGED <<request, cloudinary_url, i, local_audio, local_imgs,
                   seg_files, list_txt, disk, log, cleanups,
                   created, workdir, others>>

\* lines 83-87
Setup ==
    /\ pc = "Setup"
    /\ \E n \in FreshNames("workdir", 0) :
        /\ workdir' = n
        /\ disk' = disk \cup {DirNamed(n)}
        /\ created' = created \cup {DirNamed(n)}
    /\ pc' = Successor("Setup")
    /\ UNCHANGED <<request, cloudinary_url, W, H, fps, audio_url, i, local_audio,
                   local_imgs, seg_files, list_txt, log, response, cleanups,
                   others>>

\* fetch_to_file (lines 44-51): the download succeeds, urlopen or read
\* raises before a file exists, or the write raises after mkstemp made it
FetchOutcomes == {"ok", "net_error", "write_error"}

\* subprocess.check_output of ffmpeg (lines 119, 137, 149): exit 0; a
\* non-zero exit with or without a partly written output file; the child
\* cannot be started (OSError); the child never exits (no timeout is given)
RunOutcomes == {"ok", "nonzero", "nonzero_partial", "oserror", "hang"}

\* the files an invocation with this outcome leaves behind
Written(outcome, f) ==
    IF outcome \in {"ok", "nonzero_partial", "write_error"} THEN {f} ELSE {}

\* the except clause an unsuccessful child process ends in (lines 172-176)
RunErrorResponse(outcome) ==
    IF outcome \in {"nonzero", "nonzero_partial"}
    THEN FfmpegErrorResponse
    ELSE ExceptionResponse

\* line 91
FetchAudio ==
    /\ pc = "FetchAudio"
    /\ \E outcome \in FetchOutcomes, n \in FreshNames("audio", 0) :
        /\ log' = Append(log, Event("fetch_audio", 0, outcome = "ok"))
        /\ disk' = disk \cup Written(outcome, AudioFile(n))
        /\ created' = created \cup Written(outcome, AudioFile(n))
        /\ IF outcome = "ok"
           THEN /\ local_audio' = AudioFile(n)
                /\ pc' = Successor("FetchAudio")
                /\ UNCHANGED response
           ELSE /\ Finish(ExceptionResponse)
                /\ UNCHANGED local_audio
    /\ UNCHANGED <<request, cloudinary_url, W, H, fps, audio_url, i, local_imgs,
                   seg_files, list_txt, cleanups,
                   workdir, others>>

\* secs <= 0 on the float of line 96 (false of NaN)
NonPositive(t) == t.kind = "num" /\ t.v <= 0

\* the test of line 97, negated: the scene is fetched and encoded
Usable(img_url, secs) == ~(img_url = <<>> \/ NonPositive(secs))

\* lines 94-98, one iteration up to the continue
SceneCheck ==
    /\ pc = "Loop"
    /\ i <= Len(request.scenes)
    /\ LET s == request.scenes[i]
       IN  IF ~s.object \/ s.seconds.kind = "bad"
           THEN /\ Finish(ExceptionResponse)
                /\ UNCHANGED i
           ELSE IF Usable(clean_url(s.image_url), s.seconds)
           THEN /\ pc' = Successor("SceneCheck")
                /\ UNCHANGED <<i, response>>
           ELSE /\ i' = i + 1
                /\ UNCHANGED <<pc, response>>
    /\ UNCHANGED <<request, cloudinary_url, W, H, fps, audio_url, local_audio,
                   local_imgs, seg_files, list_txt, disk, log, cleanups,
                   created, workdir, others>>

\* lines 99-100
FetchImage ==
    /\ pc = "FetchImage"
    /\ \E outcome \in FetchOutcomes, n \in FreshNames("img", i) :
        /\ log' = Append(log, Event("fetch_image", i, outcome = "ok"))
        /\ disk' = disk \cup Written(outcome, ImgFile(i, n))
        /\ created' = created \cup Written(outcome, ImgFile(i, n))
        /\ IF outcome = "ok"
           THEN /\ local_imgs' = Append(local_imgs, ImgFile(i, n))
                /\ pc' = Successor("FetchImage")
                /\ UNCHANGED response
           ELSE /\ Finish(ExceptionResponse)
                /\ UNCHANGED local_imgs
    /\ UNCHANGED <<request, cloudinary_url, W, H, fps, audio_url, i, local_audio,
                   seg_files, list_txt, cleanups,
                   workdir, others>>

\* the handler after an ffmpeg call that did not return normally
RunFailed(outcome) ==
    IF outcome = "hang"
    THEN /\ pc' = "blocked"
         /\ UNCHANGED response
    ELSE Finish(RunErrorResponse(outcome))

\* a failed encode that is passed over: the loop goes on to the next scene
EncodeFailedSkipped(outcome) ==
    /\ i' = i + 1
    /\ pc' = "Loop"
    /\ UNCHANGED <<seg_files, response>>

\* check_output raises at line 119: line 120 is not reached and the loop
\* is left
EncodeFailed(outcome) ==
    /\ RunFailed(outcome)
    /\ UNCHANGED <<seg_files, i>>

\* the segment put in front of the list instead of at its end
PrependSegment(segs, f) == <<f>> \o segs

\* seg_files.append(seg_path), line 120
AddSegment(segs, f) == Append(segs, f)

\* lines 102-120
Encode ==
    /\ pc = "Encode"
    /\ \E outcome \in RunOutcomes :
        /\ log' = Append(log, Event("encode", i, outcome = "ok"))
        /\ disk' = disk \cup Written(outcome, SegFile(i))
        /\ created' = created \cup Written(outcome, SegFile(i))
        /\ IF outcome = "ok"
           THEN /\ seg_files' = AddSegment(seg_files, SegFile(i))
                /\ i' = i + 1
                /\ pc' = Successor("Encode")
                /\ UNCHANGED response
           ELSE EncodeFailed(outcome)
    /\ UNCHANGED <<request, cloudinary_url, W, H, fps, audio_url, local_audio,
                   local_imgs, list_txt, cleanups,
                   workdir, others>>

\* the test of line 122 left out
NoSegmentsUnchecked(segs) == FALSE

\* not seg_files, line 122
NoSegments(segs) == segs = <<>>

\* lines 122-123, reached when the loop is exhausted
CheckSegments ==
    /\ pc = "Loop"
    /\ i > Len(request.scenes)
    /\ IF NoSegments(seg_files)
       THEN Finish(ErrorResponse(400, "No se generaron segmentos"))
       ELSE /\ pc' = Successor("CheckSegments")
            /\ UNCHANGED response
    /\ UNCHANGED <<request, cloudinary_url, W, H, fps, audio_url, i, local_audio,
                   local_imgs, seg_files, list_txt, disk, log, cleanups,
                   created, workdir, others>>

\* lines 126-129; open or write may raise
WriteList ==
    /\ pc = "WriteList"
    /\ \E ok \in BOOLEAN :
        IF ok
        THEN /\ list_txt' = seg_files
             /\ disk' = disk \cup {ListFile}
             /\ created' = created \cup {ListFile}
             /\ pc' = Successor("WriteList")
             /\ UNCHANGED response
        ELSE /\ Finish(ExceptionResponse)
             /\ UNCHANGED <<list_txt, disk, created>>
    /\ UNCHANGED <<request, cloudinary_url, W, H, fps, audio_url, i, local_audio,
                   local_imgs, seg_files, log, cleanups,
                   workdir, others>>

\* lines 130-137
Concat ==
    /\ pc = "Concat"
    /\ \E outcome \in RunOutcomes :
        /\ log' = Append(log, Event("concat", 0, outcome = "ok"))
        /\ disk' = disk \cup Written(outcome, ConcatFile)
        /\ created' = created \cup Written(outcome, ConcatFile)
        /\ IF outcome = "ok"
           THEN /\ pc' = Successor("Concat")
                /\ UNCHANGED response
           ELSE RunFailed(outcome)
    /\ UNCHANGED <<request, cloudinary_url, W, H, fps, audio_url, i, local_audio,
                   local_imgs, seg_files, list_txt, cleanups,
                   workdir, others>>

\* lines 140-149
Mux ==
    /\ pc = "Mux"
    /\ \E outcome \in RunOutcomes :
        /\ log' = Append(log, Event("mux", 0, outcome = "ok"))
        /\ disk' = disk \cup Written(outcome, OutFile)
        /\ created' = created \cup Written(outcome, OutFile)
        /\ IF outcome = "ok"
           THEN /\ pc' = Successor("Mux")
                /\ UNCHANGED response
           ELSE RunFailed(outcome)
    /\ UNCHANGED <<request, cloudinary_url, W, H, fps, audio_url, i, local_audio,
                   local_imgs, seg_files, list_txt, cleanups,
                   workdir, others>>

\* lines 152-153
CheckConfig ==
    /\ pc = "Publish"
    /\ IF ~cloudinary_url
       THEN Finish(ErrorResponse(500, "CLOUDINARY_URL no configurado"))
       ELSE /\ pc' = Successor("CheckConfig")
            /\ UNCHANGED response
    /\ UNCHANGED <<request, cloudinary_url, W, H, fps, audio_url, i, local_audio,
                   local_imgs, seg_files, list_txt, disk, log, cleanups,
                   created, workdir, others>>

\* lines 166-170
OkResponse(n) ==
    [Response(200, "ok", NoStage, "none", "secure_url", n)
        EXCEPT !.w = W, !.h = H, !.fps = fps]

\* lines 155-170
Upload ==
    /\ pc = "Upload"
    /\ \E ok \in BOOLEAN :
        /\ log' = Append(log, Event("upload", 0, ok))
        /\ IF ok
           THEN Finish(OkResponse(Len(seg_files)))
           ELSE Finish(ExceptionResponse)
    /\ UNCHANGED <<request, cloudinary_url, W, H, fps, audio_url, i, local_audio,
                   local_imgs, seg_files, list_txt, disk, cleanups,
                   created, workdir, others>>

\* the paths the finally block visits, in its order (lines 179-187)
CleanupTargets ==
    (IF local_audio # NoFile THEN <<local_audio>> ELSE <<>>)
        \o local_imgs \o seg_files \o <<ConcatFile, OutFile>>

\* an exception of os.remove that leaves the finally block and replaces
\* the pending return value
CleanupResponseMasked(raised) ==
    IF raised THEN ExceptionResponse ELSE response

\* lines 188-189: an exception of os.remove is swallowed, the value of the
\* pending return is what the handler returns
CleanupResponse(raised) == response

\* lines 177-189: each path that exists is removed; the first os.remove
\* that raises ends the block (except Exception: pass)
Cleanup ==
    /\ pc = "Cleanup"
    /\ \E k \in 0..Len(CleanupTargets) :
        /\ k < Len(CleanupTargets) => CleanupTargets[k + 1] \in disk
        /\ disk' = disk \ {CleanupTargets[j] : j \in 1..k}
        /\ created' = created \ {CleanupTargets[j] : j \in 1..k}
        /\ response' = CleanupResponse(k < Len(CleanupTargets))
    /\ cleanups' = cleanups + 1
    /\ pc' = "done"
    /\ UNCHANGED <<request, cloudinary_url, W, H, fps, audio_url, i,
                   local_audio, local_imgs, seg_files, list_txt, log,
                   workdir, others>>

Next ==
    \/ Validate
    \/ Setup
    \/ FetchAudio
    \/ SceneCheck
    \/ FetchImage
    \/ Encode
    \/ CheckSegments
    \/ WriteList
    \/ Concat
    \/ Mux
    \/ CheckConfig
    \/ Upload
    \/ Cleanup

\* ================================================================ claims

\* the scratch files on disk (the request's directory itself is left out)
ScratchFiles == {f \in disk : f.kind # "workdir"}

\* the external call the log ends with did not return successfully
LastCallFailed == log # <<>> /\ ~log[Len(log)].ok

\* C1: once the response of a /render request has been returned, whatever
\* the outcome, no scratch file created during the request is left on disk
\* (audio, images, segments, the concat list, the concatenated
\* intermediate, the final output).
C1_NoScratchFileRemains == pc = "done" => ScratchFiles = {}

\* a scene the request declares invalid: empty image_url or seconds <= 0
DeclaredInvalid(s) ==
    /\ s.object
    /\ s.seconds.kind = "num"
    /\ (s.image_url = <<>> \/ s.seconds.v <= 0)

\* C2: a request whose scenes are all invalid (empty image_url or
\* seconds <= 0), or whose audio_url is empty after normalization, is
\* rejected in Validating: no external call is made and no scratch file or
\* directory is created for it.
C2_RejectedInValidating ==
    (/\ request.payload_ok
     /\ \/ \A k \in 1..Len(request.scenes) : DeclaredInvalid(request.scenes[k])
        \/ clean_url(request.audio_url) = <<>>)
        => log = <<>> /\ disk = {}

\* C3: a failed step is the last step of the request: no external call
\* follows a call that failed, the handler is then on its way out (or, if
\* the child never exits, blocked in that call), and the response is never
\* ok.
C3_FailureAborts ==
    \A k \in 1..Len(log) :
        ~log[k].ok
            => /\ k = Len(log)
               /\ pc \in {"Cleanup", "done", "blocked"}
               /\ response.status # "ok"
               /\ response.video_url = NoUrl

\* C3 witness: a scene was encoded, the encode of a later scene failed and
\* the request was answered.
C3_Witness ==
    /\ pc = "done"
    /\ Len(log) >= 4
    /\ log[Len(log)] = Event("encode", 2, FALSE)
    /\ log[Len(log) - 2] = Event("encode", 1, TRUE)

\* C4: the response to a request that failed in an external call (fetch,
\* encode, concat, mux, upload) is an error that carries a stage field.
C4_ErrorCarriesStage ==
    (pc = "done" /\ LastCallFailed)
        => response.status = "error" /\ response.stage # NoStage

\* a scene with a non-empty image_url and seconds > 0, read literally
LiterallyValid(s) ==
    /\ s.object
    /\ s.image_url # <<>>
    /\ s.seconds.kind = "num"
    /\ s.seconds.v > 0

\* a scene whose image_url is non-empty once surrounding whitespace and one
\* pair of surrounding quotes are removed, and whose seconds is a number
\* that is not <= 0 (a positive number or NaN)
ValidScene(s) ==
    /\ s.object
    /\ LET t == strip(s.image_url)
       IN  /\ t # <<>>
           /\ t \notin {<<DQ>>, <<SQ>>, <<DQ, DQ>>, <<SQ, SQ>>}
    /\ \/ s.seconds.kind = "nan"
       \/ s.seconds.kind = "num" /\ s.seconds.v > 0

LiterallyValidScenes ==
    {k \in 1..Len(request.scenes) : LiterallyValid(request.scenes[k])}

ValidScenes == {k \in 1..Len(request.scenes) : ValidScene(request.scenes[k])}

\* the events of the log that download an image or run the segment encoder
SceneEvents == {k \in 1..Len(log) : log[k].op \in {"fetch_image", "encode"}}

UnconfiguredAtPublishing ==
    /\ ~cloudinary_url
    /\ \E k \in 1..Len(log) : log[k] = Event("mux", 0, TRUE)

\* C6: with the publisher unconfigured, a request that reaches Publishing
\* makes no upload and is answered with an error tagged stage "upload" or
\* "publish"; the final video file is deleted by cleanup.
C6_UnconfiguredPublisher ==
    (pc = "done" /\ UnconfiguredAtPublishing)
        => /\ \A k \in 1..Len(log) : log[k].op # "upload"
           /\ response.status = "error"
           /\ response.stage \in {"upload", "publish"}
           /\ OutFile \notin disk

\* C7: no request holds its worker forever: until the response is
\* returned the handler always has a next step to take (a child that does
\* not exit is ended by the request's timeout).
C7_WorkerNeverHeld == pc = "done" \/ ENABLED Next

\* the request has a scene that is no object or whose seconds is no number
IllTyped ==
    /\ request.payload_ok
    /\ \E k \in 1..Len(request.scenes) :
        \/ ~request.scenes[k].object
        \/ request.scenes[k].seconds.kind = "bad"

\* C8: a request with a scene that is not an object, or whose seconds is
\* not a number, is answered 400 from Validating: nothing is fetched, no
\* scratch file or directory is created, and the response is never a 500.
C8_IllTypedRejected ==
    IllTyped => /\ log = <<>>
                /\ disk = {}
                /\ response.code \in {0, 400}

\* C9 as stated: every image is downloaded before the encoder first runs:
\* an encoder invocation is preceded by the download of the image of every
\* valid scene of the request.
C9_AllImagesBeforeEncoding ==
    \A p \in 1..Len(log) :
        log[p].op = "encode"
            => \A k \in ValidScenes :
                \E q \in 1..(p - 1) : log[q] = Event("fetch_image", k, TRUE)

\* the call that may come directly before the call e
MayFollow(d, e) ==
    /\ d.ok
    /\ CASE e.op = "fetch_audio" -> FALSE
         [] e.op = "fetch_image" ->
                \/ d.op = "fetch_audio"
                \/ d.op = "encode" /\ d.idx < e.idx
         [] e.op = "encode" -> d = Event("fetch_image", e.idx, TRUE)
         [] e.op = "concat" -> d.op = "encode"
         [] e.op = "mux" -> d.op = "concat"
         [] e.op = "upload" -> d.op = "mux"

\* C9 amended: the audio is downloaded first; then, scene by scene in input
\* order, the image of a scene is downloaded and at once encoded, before
\* the image of the next scene is downloaded; concat, mux and upload
\* follow in that order after the last encode.
C9_FetchAndEncodePerScene ==
    \A p \in 1..Len(log) :
        IF p = 1
        THEN log[p].op = "fetch_audio"
        ELSE MayFollow(log[p - 1], log[p])

\* C9 witness: two scenes were downloaded and encoded and the video was
\* uploaded.
C9_Witness ==
    /\ Len(log) = 8
    /\ log[3].op = "encode"
    /\ log[4].op = "fetch_image"
    /\ log[8] = Event("upload", 0, TRUE)

RECURSIVE SortedSeq(_)
SortedSeq(S) ==
    IF S = {}
    THEN <<>>
    ELSE LET m == CHOOSE x \in S : \A y \in S : x <= y
         IN  <<m>> \o SortedSeq(S \ {m})

IsEncode(e) == e.op = "encode"
IsEncoded(e) == e.op = "encode" /\ e.ok

\* the scene numbers of a sequence of events
Scenes(events) == [k \in 1..Len(events) |-> events[k].idx]

\* the segment files of a sequence of scene numbers
Segments(idxs) == [k \in 1..Len(idxs) |-> SegFile(idxs[k])]

\* C10: the encoder runs at most once per scene, on valid scenes only and
\* in input order; seg_files is the segments of the successful encodes in
\* that order; the list written for the concatenator is that sequence, and
\* when it is written every valid scene has been encoded exactly once.
C10_SegmentsInSceneOrder ==
    LET encodes == Scenes(SelectSeq(log, IsEncode))
        encoded == Scenes(SelectSeq(log, IsEncoded))
    IN  /\ \A k \in 1..Len(encodes) :
              /\ encodes[k] \in ValidScenes
              /\ k > 1 => encodes[k - 1] < encodes[k]
        /\ seg_files = Segments(encoded)
        /\ pc \in {"Concat", "Mux", "Publish", "Upload"}
              => /\ list_txt = Segments(SortedSeq(ValidScenes))
                 /\ encodes = SortedSeq(ValidScenes)
        /\ (\E k \in 1..Len(log) : log[k].op = "concat")
              => list_txt = Segments(SortedSeq(ValidScenes))

\* C10 witness: the concatenator was run on the segments of two scenes.
C10_Witness ==
    /\ Len(list_txt) = 2
    /\ \E k \in 1..Len(log) : log[k].op = "concat"

\* the stage an external call belongs to
StageOf(op) ==
    CASE op \in {"fetch_audio", "fetch_image"} -> "fetch"
      [] op = "encode" -> "encode"
      [] op = "concat" -> "concat"
      [] op = "mux" -> "mux"
      [] op = "upload" -> "upload"

\* C11: the error returned after a failed encode, concat or mux invocation
\* is tagged with the stage of that invocation (encode, concat, mux), so
\* failures of different stages carry different tags.
C11_StageOfOrigin ==
    (/\ pc = "done"
     /\ LastCallFailed
     /\ log[Len(log)].op \in {"encode", "concat", "mux"})
        => response.stage = StageOf(log[Len(log)].op)

\* the paths of the finally block that are still on disk
TargetsLeft ==
    {j \in 1..Len(CleanupTargets) : CleanupTargets[j] \in disk}

\* C12: cleanup is best-effort per file: the removal that raises leaves
\* its own file, and every other path of the finally block is still
\* removed (at most one removal raises in a run of the block, so at most
\* one of its paths is left).
C12_OtherFilesStillDeleted ==
    (pc = "done" /\ cleanups = 1) => Cardinality(TargetsLeft) <= 1

\* C13: the finally block never changes the response: what the handler
\* returns is the value pending when the block was entered, whether or not
\* a removal raised.
C13_CleanupKeepsResponse == [][pc = "Cleanup" => response' = response]_vars

\* C13 witness: a request was answered ok although a removal of its
\* cleanup raised (the downloaded audio is still on disk).
C13_Witness ==
    /\ pc = "done"
    /\ response.status = "ok"
    /\ local_audio # NoFile
    /\ local_audio \in disk

\* the request passed validation and entered the try block of line 89
EnteredPipeline == WorkDir \in disk

\* C14: the finally block runs exactly once for a request that entered the
\* pipeline and was answered, after the response was determined and before
\* it is returned; it does not run for a request rejected by validation,
\* and never twice.
C14_CleanupExactlyOnce ==
    /\ cleanups \in {0, 1}
    /\ cleanups = 1 <=> (pc = "done" /\ EnteredPipeline)
    /\ pc = "Cleanup" => (response # NoResponse /\ cleanups = 0)
    /\ (pc \notin {"Cleanup", "done"}) => response = NoResponse

\* C14 witness: a request that found no usable scene was answered 400 from
\* inside the pipeline, after its cleanup.
C14_Witness ==
    /\ pc = "done"
    /\ cleanups = 1
    /\ response.code = 400
    /\ log = <<Event("fetch_audio", 0, TRUE)>>

\* C16: the audio download is the first external call of a request and is
\* made once; if it fails, no image is downloaded and no encoder is run.
C16_AudioFirst ==
    /\ log # <<>> => log[1].op = "fetch_audio"
    /\ \A p \in 2..Len(log) : log[p].op # "fetch_audio"
    /\ (log # <<>> /\ ~log[1].ok) => Len(log) = 1

\* C16 witness: the audio download failed and the request was answered.
C16_Witness ==
    /\ pc = "done"
    /\ log = <<Event("fetch_audio", 0, FALSE)>>
    /\ Len(request.scenes) = 2

\* C18: the concatenator is run on a non-empty list of segments, each the
\* output of an encode that exited successfully; a request without a
\* usable scene is answered with an error and runs no concat, mux or
\* upload.
C18_ConcatInputEncoded ==
    /\ (\E p \in 1..Len(log) : log[p].op = "concat")
        => /\ list_txt # <<>>
           /\ \A k \in 1..Len(list_txt) :
                \E p \in 1..Len(log) :
                    /\ log[p].op = "encode"
                    /\ log[p].ok
                    /\ list_txt[k] = SegFile(log[p].idx)
    /\ (pc = "done" /\ EnteredPipeline /\ ValidScenes = {})
        => /\ response.status = "error"
           /\ \A p \in 1..Len(log) :
                log[p].op \notin {"concat", "mux", "upload"}

\* C18 witness: every scene of a request was skipped and the request was
\* answered with an error.
C18_Witness ==
    /\ pc = "done"
    /\ EnteredPipeline
    /\ ValidScenes = {}
    /\ i > Len(request.scenes)
    /\ response.status = "error"

\* C17: a request whose width, height or fps is not positive is rejected
\* by validation: it never enters the pipeline, so no fetch and no encoder
\* invocation is made for it.
C17_PositiveDimensions ==
    (/\ request.payload_ok
     /\ \/ request.video.w <= 0
        \/ request.video.h <= 0
        \/ request.video.fps <= 0)
        => log = <<>>

Spec == Init /\ [][Next]_vars

\* The handler runs on a thread of its own and takes its next step whenever
\* it has one.
FairSpec == Spec /\ WF_vars(Next)

\* ------------------------------------------------- requests in flight
\* The other requests the server is handling at the start.
MaxOthers == 1

\* the state of this request's handler: the locals of render
Context ==
    [request |-> request, pc |-> pc, W |-> W, H |-> H, fps |-> fps,
     audio_url |-> audio_url, i |-> i, local_audio |-> local_audio,
     local_imgs |-> local_imgs, seg_files |-> seg_files,
     list_txt |-> list_txt, log |-> log, response |-> response,
     cleanups |-> cleanups, workdir |-> workdir, created |-> created]

\* the handler of a request that has just arrived
Arrived(req) ==
    [request |-> req, pc |-> "Validating", W |-> 0, H |-> 0, fps |-> 0,
     audio_url |-> <<>>, i |-> 1, local_audio |-> NoFile,
     local_imgs |-> <<>>, seg_files |-> <<>>, list_txt |-> <<>>,
     log |-> <<>>, response |-> NoResponse, cleanups |-> 0, workdir |-> 0,
     created |-> {}]

\* the requests sent while others are in flight: one scene, all defaults
ConcurrentRequests ==
    {[payload_ok |-> TRUE,
      video |-> [w |-> DefaultW, h |-> DefaultH, fps |-> DefaultFps],
      audio_url |-> <<SQ, CH, SQ>>,
      scenes |-> <<SceneObject(<<CH>>, Num(1))>>]}

\* the server is handling 1 + MaxOthers requests; the disk and the
\* configuration are theirs in common
ConcInit ==
    /\ request \in ConcurrentRequests
    /\ cloudinary_url \in BOOLEAN
    /\ pc = "Validating"
    /\ W = 0
    /\ H = 0
    /\ fps = 0
    /\ audio_url = <<>>
    /\ i = 1
    /\ local_audio = NoFile
    /\ local_imgs = <<>>
    /\ seg_files = <<>>
    /\ list_txt = <<>>
    /\ disk = {}
    /\ log = <<>>
    /\ response = NoResponse
    /\ cleanups = 0
    /\ workdir = 0
    /\ created = {}
    /\ others \in [1..MaxOthers -> {Arrived(r) : r \in ConcurrentRequests}]

\* the thread of another request is scheduled: its handler's state becomes
\* the current one, this handler's state waits with the others
Switch ==
    /\ others # <<>>
    /\ LET c == Head(others)
       IN  /\ request' = c.request
           /\ pc' = c.pc
           /\ W' = c.W
           /\ H' = c.H
           /\ fps' = c.fps
           /\ audio_url' = c.audio_url
           /\ i' = c.i
           /\ local_audio' = c.local_audio
           /\ local_imgs' = c.local_imgs
           /\ seg_files' = c.seg_files
           /\ list_txt' = c.list_txt
           /\ log' = c.log
           /\ response' = c.response
           /\ cleanups' = c.cleanups
           /\ workdir' = c.workdir
           /\ created' = c.created
    /\ others' = Append(Tail(others), Context)
    /\ UNCHANGED <<cloudinary_url, disk>>

ConcNext ==
    \/ Next
    \/ Switch

\* requests handled by one thread each, in any interleaving of their steps
ConcSpec == ConcInit /\ [][ConcNext]_vars

\* the paths the other requests made and have not removed
OthersCreated == UNION {others[k].created : k \in 1..Len(others)}

\* every scratch file of this request lies in its own directory
InOwnDirectory ==
    \A f \in created :
        f.kind # "workdir" => (f.dir = "work" /\ f.n = workdir)

\* no path is held by two requests, and no two requests have one directory
NoPathShared ==
    /\ created \cap OthersCreated = {}
    /\ \A k \in 1..Len(others) :
        workdir # 0 => others[k].workdir # workdir

\* C15 as stated: under any interleaving of the requests in flight, every
\* scratch file a request creates lies in that request's own scratch
\* directory and no path is held by two requests.
C15_IsolatedDirectory == InOwnDirectory /\ NoPathShared

\* every scratch file of this request lies in its own directory, or is a
\* download that mkstemp made in the system temporary directory
InOwnDirectoryOrTemp ==
    \A f \in created :
        \/ f.dir = "work" /\ f.n = workdir
        \/ f.dir = "tmp" /\ f.kind \in {"workdir", "audio", "img"}

\* C15 amended: under any interleaving, segments, list, concatenated
\* intermediate and output lie in the request's own directory, downloads
\* lie in the shared temporary directory under names no other existing
\* file has; no path is held by two requests at once, and a step of a
\* request removes only paths that request made.
C15_NoSharedPath ==
    /\ [](InOwnDirectoryOrTemp /\ NoPathShared)
    /\ [][(disk \ disk') \subseteq created]_vars

\* C15 witness: two requests in flight each downloaded an audio file into
\* the shared temporary directory; this one has been cleaned up and its
\* audio file is gone, the other is still running and its audio file exists.
C15_Witness ==
    /\ others # <<>>
    /\ pc = "done"
    /\ cleanups = 1
    /\ local_audio # NoFile
    /\ local_audio \notin disk
    /\ others[1].local_audio # NoFile
    /\ others[1].local_audio \in disk
    /\ others[1].pc \notin {"Cleanup", "done"}

\* C19: unless an external call never returns, the request is eventually
\* answered; the response is determined once, is never replaced, and a
\* request that has been answered has one.
C19_AnsweredOnce ==
    /\ (<>(pc = "blocked")) \/ <>(pc = "done")
    /\ [](pc = "done" => response # NoResponse)
    /\ [][response # NoResponse => response' = response]_vars

\* C19 witness: a request with as many scenes as the bound allows was
\* answered after its upload failed.
C19_Witness ==
    /\ pc = "done"
    /\ Len(request.scenes) = MaxScenes
    /\ log # <<>>
    /\ log[Len(log)] = Event("upload", 0, FALSE)
    /\ response.code = 500

====
